---- MODULE Spec2Model ----
(***************************************************************************)
(* Model of the media-stream relay of src/index.js: the /media-stream      *)
(* websocket handler, its session registry, the upstream (VAPI) websocket  *)
(* it opens per downstream connection, and the transcript it accumulates.  *)
(*                                                                         *)
(* Every downstream connection is one run of the handler at lines 104-240. *)
(* Its closure holds sessionId, session (a reference to a heap object) and *)
(* vapiWs.  The registry `sessions` is the process-wide Map of line 59.     *)
(* Node runs every callback to completion on one thread, so each callback  *)
(* is one atomic action.  The model starts at a listening server: the      *)
(* module's top-level statements (lines 1-72, 243-249) are taken to have   *)
(* run.                                                                    *)
(***************************************************************************)
EXTENDS Integers, Sequences, FiniteSets, TLC

(* ------------------------------ bounds --------------------------------- *)
\* downstream connections accepted during a run
MaxConns == 3
\* events (connections, socket events, messages) handled during a run
MaxEvents == 5
\* the last value of the millisecond clock read by Date.now()
MaxClock == 1

\* the longest transcript, in tokens, given to cleanTranscript on its own
MaxTranscriptLen == 5

Conns == 1 .. MaxConns

(* ------------------------------ inputs --------------------------------- *)
\* the property is absent from the parsed JSON object: JS reads `undefined`
Missing == "MISSING"
MissingText == <<"MISSING">>
\* a frame that JSON.parse rejects
Garbage == [garbage |-> TRUE]
\* values of the x-twilio-call-sid request header
Headers == {"CA1"}
NoHeader == "NOHEADER"
Payloads == {"abc", "xyz"}
StreamSids == {"SS1", "SS2"}

\* the parameters Twilio posts to /incoming-call, one set per call (line 83);
\* the third call comes without From
WebhookCalls ==
  { [CallSid |-> "CA1", From |-> "+15550001"],
    [CallSid |-> "CA2", From |-> "+15550002"],
    [CallSid |-> "CA3", From |-> Missing] }

\* Strings are sequences of tokens.  The tokens are the pieces the code
\* concatenates or searches for, so `includes`, `trim` and `split` act on
\* them exactly as they act on the characters.
NL == "\n"
SP == " "
Whitespace == {NL, SP}
UserTag == <<"MAN User: ">>
AgentTag == <<"MIC ", "Agent: ">>
Sentinel == <<"Agent: ", "Agent message not found">>
Undefined == <<"undefined">>
EmptyString == <<>>

\* `text` of an upstream transcript / assistant_response event
Texts ==
  { EmptyString,
    <<SP, "hello", SP>>,
    <<"hi", NL, "there">>,
    <<"Agent message not found">> }

\* frames the telephony peer can send (line 191)
DownMsgs ==
  {Garbage}
    \cup { [event |-> "media", media |-> f] : f \in Payloads \cup {Missing} }
    \cup { [event |-> "start", start |-> f] : f \in StreamSids \cup {Missing} }
    \cup { [event |-> "stop"] }

\* frames the voice service can send (line 149)
UpMsgs ==
  {Garbage}
    \cup { [type |-> "transcript", text |-> f] : f \in Texts \cup {MissingText} }
    \cup { [type |-> "assistant_response", text |-> f] : f \in Texts \cup {MissingText} }
    \cup { [type |-> "audio", chunk |-> f] : f \in Payloads \cup {Missing} }
    \cup { [type |-> "error"], [type |-> "session.created"] }

(* ------------------------------ state ---------------------------------- *)
VARIABLES
  now,        \* the last value Date.now() returned, in milliseconds
  sessions,   \* the registry Map: call identifier -> session object, or NoSession
  heap,       \* session objects: object id -> [transcript, streamSid], or NoObject
  down,       \* connection.socket per handler run: "none", "open", "closed"
  sessionId,  \* the closure constant sessionId of each handler run
  session,    \* the closure variable session of each handler run (an object id)
  vapiWs,     \* vapiWs.readyState of each handler run
  upOut,      \* frames sent on vapiWs, in order
  downOut,    \* frames sent on connection.socket, in order
  mediaLog,   \* downstream media events handled: <<payload, upstream was open>>
  closeRuns,  \* runs of the downstream close handler, per connection
  nEvents,    \* events handled so far
  callerNumber,  \* the module variable of line 55
  callSid,       \* the module variable of line 56
  requests,      \* extraction requests issued (the fetch of line 264), in order
  cleanIn,    \* cleanTranscript on its own: the argument
  cleanOnce,  \* cleanTranscript(cleanIn)
  cleanTwice, \* cleanTranscript(cleanOnce)
  cleanPc     \* "idle", or how far the two calls have got: "in", "once", "twice"

\* what the relay's websocket callbacks never assign
webhookVars == << callerNumber, callSid, requests >>

cleanVars == << cleanIn, cleanOnce, cleanTwice, cleanPc >>

relayVars ==
  << now, sessions, heap, down, sessionId, session, vapiWs, upOut, downOut,
     mediaLog, closeRuns, nEvents >>

vars == << relayVars, webhookVars, cleanVars >>

NoSession == 0
NoObject == [transcript |-> <<"NOOBJECT">>, streamSid |-> "NOOBJECT"]
Null == "null"
NoId == "NOID"

\* `session_${Date.now()}`
FallbackId(t) == "session_" \o ToString(t)
CallIds == Headers \cup { FallbackId(t) : t \in 0 .. MaxClock }

\* the object literal of lines 109-112
NewSession == [transcript |-> EmptyString, streamSid |-> Null]

\* the `start` frame of lines 127-142
SessionUpdate ==
  [ type |-> "start",
    encoding |-> "mulaw",
    sampleRate |-> 8000,
    voice |-> "ballad",
    temperatureTenths |-> 8 ]

AudioMessage(p) == [type |-> "audio", chunk |-> p]
AudioDelta(sid, p) == [event |-> "media", streamSid |-> sid, payload |-> p]

\* the server before any request
ServerInit ==
  /\ now = 0
  /\ sessions = [c \in CallIds |-> NoSession]
  /\ heap = [o \in Conns |-> NoObject]
  /\ down = [k \in Conns |-> "none"]
  /\ sessionId = [k \in Conns |-> NoId]
  /\ session = [k \in Conns |-> NoSession]
  /\ vapiWs = [k \in Conns |-> "NONE"]
  /\ upOut = [k \in Conns |-> <<>>]
  /\ downOut = [k \in Conns |-> <<>>]
  /\ mediaLog = [k \in Conns |-> <<>>]
  /\ closeRuns = [k \in Conns |-> 0]
  /\ nEvents = 0
  /\ callerNumber = Null
  /\ callSid = Null
  /\ requests = <<>>

Init ==
  /\ ServerInit
  /\ cleanIn = EmptyString
  /\ cleanOnce = EmptyString
  /\ cleanTwice = EmptyString
  /\ cleanPc = "idle"

(* --------------------------- string functions --------------------------- *)
RECURSIVE TrimStart(_)
TrimStart(s) ==
  IF s # <<>> /\ Head(s) \in Whitespace THEN TrimStart(Tail(s)) ELSE s

RECURSIVE TrimEnd(_)
TrimEnd(s) ==
  IF s # <<>> /\ s[Len(s)] \in Whitespace
    THEN TrimEnd(SubSeq(s, 1, Len(s) - 1))
    ELSE s

\* String.prototype.trim
Trim(s) == TrimEnd(TrimStart(s))

\* String.prototype.includes
Includes(s, pat) ==
  \E i \in 1 .. (Len(s) - Len(pat) + 1) : SubSeq(s, i, i + Len(pat) - 1) = pat

\* s.split("\n"): the pieces between line feeds, empty pieces kept
RECURSIVE SplitFrom(_, _)
SplitFrom(s, cur) ==
  IF s = <<>> THEN <<cur>>
  ELSE IF Head(s) = NL THEN <<cur>> \o SplitFrom(Tail(s), <<>>)
  ELSE SplitFrom(Tail(s), Append(cur, Head(s)))

Split(s) == SplitFrom(s, <<>>)

\* lines.join(sep)
RECURSIVE Join(_, _)
Join(lines, sep) ==
  IF lines = <<>> THEN <<>>
  ELSE IF Len(lines) = 1 THEN lines[1]
  ELSE lines[1] \o sep \o Join(Tail(lines), sep)

\* NoSentinel as a test for the whole line
NoSentinelEqual(line) == line # Sentinel

NoSentinel(line) == ~Includes(line, Sentinel)
\* NotBlank with the second filter left out
NotBlankAlways(line) == TRUE

NotBlank(line) == Trim(line) # EmptyString

\* cleanTranscript joining with one line feed
cleanTranscriptOneFeed(transcript) ==
  Join(SelectSeq(SelectSeq(Split(transcript), NoSentinel), NotBlank), <<NL>>)

\* lines 252-258
cleanTranscript(transcript) ==
  Join(SelectSeq(SelectSeq(Split(transcript), NoSentinel), NotBlank), <<NL, NL>>)

\* `${value}` of a property that may be absent
Interpolate(text) == IF text = MissingText THEN Undefined ELSE text

(* ----------------------------- actions --------------------------------- *)
\* one more websocket callback runs, while the run is within its bound; none
\* of them assigns callerNumber or callSid, and none calls
\* processTranscriptAndSend, the only path to an extraction request.
Handled ==
  /\ nEvents < MaxEvents
  /\ nEvents' = nEvents + 1
  /\ UNCHANGED << webhookVars, cleanVars >>

\* lines 107-108: Date.now() is read only when the header is absent; t is the
\* value it returns, never less than the value it returned before.
SessionIdOf(h, t) == IF h # NoHeader THEN h ELSE FallbackId(t)

\* Connect with the lookup left out: a session object is created and
\* registered for every connection.
ConnectAlwaysNew(k, h, t) ==
  LET id == IF h # NoHeader THEN h ELSE FallbackId(t)
  IN /\ down[k] = "none"
     /\ \A j \in Conns : j < k => down[j] # "none"
     /\ t >= now
     /\ Handled
     /\ now' = IF h # NoHeader THEN now ELSE t
     /\ down' = [down EXCEPT ![k] = "open"]
     /\ sessionId' = [sessionId EXCEPT ![k] = id]
     /\ session' = [session EXCEPT ![k] = k]
     /\ heap' = [heap EXCEPT ![k] = NewSession]
     /\ sessions' = [sessions EXCEPT ![id] = k]
     /\ vapiWs' = [vapiWs EXCEPT ![k] = "CONNECTING"]
     /\ UNCHANGED << upOut, downOut, mediaLog, closeRuns >>

\* lines 104-121: a downstream connection arrives; k is the next handler run,
\* and a session object created by run k has object id k.
Connect(k, h, t) ==
  LET id == SessionIdOf(h, t)
      found == sessions[id]
      obj == IF found # NoSession THEN found ELSE k
  IN /\ down[k] = "none"
     /\ \A j \in Conns : j < k => down[j] # "none"
     /\ t >= now
     /\ Handled
     /\ now' = IF h # NoHeader THEN now ELSE t
     /\ down' = [down EXCEPT ![k] = "open"]
     /\ sessionId' = [sessionId EXCEPT ![k] = id]
     /\ session' = [session EXCEPT ![k] = obj]
     /\ heap' = IF found # NoSession THEN heap ELSE [heap EXCEPT ![k] = NewSession]
     /\ sessions' = [sessions EXCEPT ![id] = obj]
     /\ vapiWs' = [vapiWs EXCEPT ![k] = "CONNECTING"]
     /\ UNCHANGED << upOut, downOut, mediaLog, closeRuns >>

\* UpstreamOpen with the media events that arrived before it queued and sent
\* after the `start` frame.
UpstreamOpenFlush(k) ==
  LET held == SelectSeq(mediaLog[k], LAMBDA e : ~e[2])
  IN /\ vapiWs[k] = "CONNECTING"
     /\ Handled
     /\ vapiWs' = [vapiWs EXCEPT ![k] = "OPEN"]
     /\ upOut' = [upOut EXCEPT ![k] =
                    <<SessionUpdate>> \o [i \in 1 .. Len(held) |-> AudioMessage(held[i][1])]]
     /\ UNCHANGED << now, sessions, heap, down, sessionId, session, downOut,
                     mediaLog, closeRuns >>

\* lines 124-146: vapiWs emits "open"; the library sets readyState to OPEN and
\* runs the listener in the same turn.
UpstreamOpen(k) ==
  /\ vapiWs[k] = "CONNECTING"
  /\ Handled
  /\ vapiWs' = [vapiWs EXCEPT ![k] = "OPEN"]
  /\ upOut' = [upOut EXCEPT ![k] = Append(@, SessionUpdate)]
  /\ UNCHANGED << now, sessions, heap, down, sessionId, session, downOut,
                  mediaLog, closeRuns >>

\* lines 149-188: vapiWs emits "message".  A throw inside the try block
\* (JSON.parse, or .trim() of an absent text) leaves what was done before it
\* and skips the rest.
UpstreamHeap(k, m) ==
  LET o == session[k]
  IN IF m = Garbage THEN heap
     ELSE IF m.type = "transcript" /\ m.text # MissingText
       THEN [heap EXCEPT ![o].transcript = @ \o UserTag \o Trim(m.text) \o <<NL>>]
     ELSE IF m.type = "assistant_response"
       THEN [heap EXCEPT ![o].transcript =
                           @ \o AgentTag \o Interpolate(m.text) \o <<NL>>]
     ELSE heap

\* line 173: connection.socket.send on a socket that is not open sends nothing
\* (the library drops the frame or throws into the catch block).
UpstreamDownOut(k, m) ==
  IF m # Garbage /\ m.type = "audio" /\ down[k] = "open"
    THEN [downOut EXCEPT ![k] =
            Append(@, AudioDelta(heap[session[k]].streamSid, m.chunk))]
    ELSE downOut

UpstreamMessage(k, m) ==
  /\ vapiWs[k] \in {"OPEN", "CLOSING"}
  /\ Handled
  /\ heap' = UpstreamHeap(k, m)
  /\ downOut' = UpstreamDownOut(k, m)
  /\ UNCHANGED << now, sessions, down, sessionId, session, vapiWs, upOut,
                  mediaLog, closeRuns >>

\* MediaUpOut sending the frame twice
MediaUpOutTwice(k, m) ==
  IF vapiWs[k] = "OPEN" /\ m.media # Missing
    THEN [upOut EXCEPT ![k] = @ \o <<AudioMessage(m.media), AudioMessage(m.media)>>]
    ELSE upOut

\* MediaUpOut without the readyState test of line 197
MediaUpOutUnguarded(k, m) ==
  IF m.media # Missing
    THEN [upOut EXCEPT ![k] = Append(@, AudioMessage(m.media))]
    ELSE upOut

\* lines 196-204
MediaUpOut(k, m) ==
  IF vapiWs[k] = "OPEN" /\ m.media # Missing
    THEN [upOut EXCEPT ![k] = Append(@, AudioMessage(m.media))]
    ELSE upOut

\* lines 205-208
StartHeap(k, m) ==
  IF m.start # Missing
    THEN [heap EXCEPT ![session[k]].streamSid = m.start]
    ELSE heap

\* lines 191-216: connection.socket emits "message"
DownstreamMessage(k, m) ==
  /\ down[k] = "open"
  /\ Handled
  /\ upOut' = IF m # Garbage /\ m.event = "media" THEN MediaUpOut(k, m) ELSE upOut
  /\ heap' = IF m # Garbage /\ m.event = "start" THEN StartHeap(k, m) ELSE heap
  /\ mediaLog' =
       IF m # Garbage /\ m.event = "media" /\ m.media # Missing
         THEN [mediaLog EXCEPT ![k] = Append(@, <<m.media, vapiWs[k] = "OPEN">>)]
         ELSE mediaLog
  /\ UNCHANGED << now, sessions, down, sessionId, session, vapiWs, downOut,
                  closeRuns >>

\* UpstreamClose with the session deregistered by the upstream close listener
UpstreamCloseTeardown(k) ==
  /\ vapiWs[k] \in {"CONNECTING", "OPEN", "CLOSING"}
  /\ Handled
  /\ vapiWs' = [vapiWs EXCEPT ![k] = "CLOSED"]
  /\ sessions' = [sessions EXCEPT ![sessionId[k]] = NoSession]
  /\ UNCHANGED << now, heap, down, sessionId, session, upOut, downOut,
                  mediaLog, closeRuns >>

\* lines 219-221: vapiWs emits "close" (after the peer's or the relay's close,
\* or after a failed handshake); the listener only logs.
UpstreamClose(k) ==
  /\ vapiWs[k] \in {"CONNECTING", "OPEN", "CLOSING"}
  /\ Handled
  /\ vapiWs' = [vapiWs EXCEPT ![k] = "CLOSED"]
  /\ UNCHANGED << now, sessions, heap, down, sessionId, session, upOut, downOut,
                  mediaLog, closeRuns >>

\* lines 223-225: vapiWs emits "error"; the listener only logs, and the library
\* is closing the socket.
UpstreamError(k) ==
  /\ vapiWs[k] \in {"CONNECTING", "OPEN"}
  /\ Handled
  /\ vapiWs' = [vapiWs EXCEPT ![k] = "CLOSING"]
  /\ UNCHANGED << now, sessions, heap, down, sessionId, session, upOut, downOut,
                  mediaLog, closeRuns >>

\* lines 229-231
CloseUpstream(k) ==
  IF vapiWs[k] = "OPEN" THEN [vapiWs EXCEPT ![k] = "CLOSING"] ELSE vapiWs

\* Deregister as sessions.clear()
DeregisterAll(k) == [c \in CallIds |-> NoSession]

\* line 238
Deregister(k) == [sessions EXCEPT ![sessionId[k]] = NoSession]

\* lines 228-239: the body of the downstream close listener
OnClose(k) ==
  /\ vapiWs' = CloseUpstream(k)
  /\ heap' = [heap EXCEPT ![session[k]].transcript = cleanTranscript(@)]
  /\ sessions' = Deregister(k)
  /\ closeRuns' = [closeRuns EXCEPT ![k] = @ + 1]
  /\ down' = [down EXCEPT ![k] = "closed"]
  /\ UNCHANGED << now, sessionId, session, upOut, downOut, mediaLog >>

\* connection.socket emits "close"
DownstreamClose(k) ==
  /\ down[k] = "open"
  /\ Handled
  /\ OnClose(k)

\* lines 80-100: the /incoming-call route; the reply (lines 91-99) is a fixed
\* template and leaves no state behind.
IncomingCall(p) ==
  /\ nEvents < MaxEvents
  /\ nEvents' = nEvents + 1
  /\ callerNumber' = IF p.From # Missing THEN p.From ELSE Null
  /\ callSid' = p.CallSid
  /\ UNCHANGED << now, sessions, heap, down, sessionId, session, vapiWs, upOut,
                  downOut, mediaLog, closeRuns, requests, cleanVars >>

\* lines 308-312 and 261-295: processTranscriptAndSend(transcript, sessionId)
\* posts the transcript to the completion API.  The value is `requests` after
\* the call.  No callback of the module calls it.
processTranscriptAndSend(transcript, id) ==
  Append(requests, [transcript |-> transcript, sessionId |-> id])

\* line 324: the caller address post-call processing reads, for any call
CallerRead == callerNumber

Next ==
  \/ \E p \in WebhookCalls : IncomingCall(p)
  \/ \E k \in Conns, h \in Headers \cup {NoHeader}, t \in 0 .. MaxClock :
       Connect(k, h, t)
  \/ \E k \in Conns : UpstreamOpen(k)
  \/ \E k \in Conns, m \in UpMsgs : UpstreamMessage(k, m)
  \/ \E k \in Conns, m \in DownMsgs : DownstreamMessage(k, m)
  \/ \E k \in Conns : UpstreamClose(k)
  \/ \E k \in Conns : UpstreamError(k)
  \/ \E k \in Conns : DownstreamClose(k)

Spec == Init /\ [][Next]_vars

(* ---------------------- a close event that repeats ---------------------- *)
\* the number of times one connection's close listener is let run
MaxCloseRuns == 2

\* connection.socket emits "close" again on a connection whose close listener
\* has already run: the listener of lines 228-239 runs again.
DownstreamCloseAgain(k) ==
  /\ down[k] = "closed"
  /\ closeRuns[k] < MaxCloseRuns
  /\ Handled
  /\ OnClose(k)

NextRepeat ==
  \/ Next
  \/ \E k \in Conns : DownstreamCloseAgain(k)

SpecRepeat == Init /\ [][NextRepeat]_vars

(* ----------------------- cleanTranscript on its own ---------------------- *)
\* the tokens of the transcripts given to cleanTranscript
CleanAlphabet ==
  { "x", SP, NL, "MIC ", "Agent: ", "Agent message not found" }

Transcripts ==
  UNION { [1 .. n -> CleanAlphabet] : n \in 0 .. MaxTranscriptLen }

InitClean ==
  /\ ServerInit
  /\ cleanIn \in Transcripts
  /\ cleanOnce = EmptyString
  /\ cleanTwice = EmptyString
  /\ cleanPc = "in"

\* cleanTranscript(T)
CleanOnce ==
  /\ cleanPc = "in"
  /\ cleanOnce' = cleanTranscript(cleanIn)
  /\ cleanPc' = "once"
  /\ UNCHANGED << relayVars, webhookVars, cleanIn, cleanTwice >>

\* cleanTranscript(cleanTranscript(T))
CleanTwice ==
  /\ cleanPc = "once"
  /\ cleanTwice' = cleanTranscript(cleanOnce)
  /\ cleanPc' = "twice"
  /\ UNCHANGED << relayVars, webhookVars, cleanIn, cleanOnce >>

NextClean ==
  \/ CleanOnce
  \/ CleanTwice

SpecClean == InitClean /\ [][NextClean]_vars

(* ------------------------------ helpers -------------------------------- *)
Accepted == { k \in Conns : down[k] # "none" }

IsAudio(f) == f.type = "audio"
IsForwarded(e) == e[2]

\* the chunks of the audio frames of a sequence of upstream frames
ChunksOf(out) ==
  LET a == SelectSeq(out, IsAudio) IN [i \in 1 .. Len(a) |-> a[i].chunk]

\* the payloads of the media events handled while upstream was open
ForwardedOf(log) ==
  LET a == SelectSeq(log, IsForwarded) IN [i \in 1 .. Len(a) |-> a[i][1]]

(* ------------------------------- claims -------------------------------- *)
\* C1: on every upstream connection the first frame sent is the `start`
\* configuration frame, it is sent exactly once, when the connection opens
\* (nothing is sent on a connection that has not opened), and every other
\* frame, an `audio` frame, comes after it.
C1_StartFirstOnce ==
  \A k \in Conns :
    LET out == upOut[k]
    IN /\ vapiWs[k] \in {"NONE", "CONNECTING"} => out = <<>>
       /\ vapiWs[k] = "OPEN" => out # <<>>
       /\ out # <<>> => out[1] = SessionUpdate
       /\ \A i \in 2 .. Len(out) : out[i].type = "audio"

\* a media event was handled before upstream opened, upstream then opened and
\* a later media event was forwarded
C1_Witness ==
  \E k \in Conns :
    /\ Len(mediaLog[k]) >= 2
    /\ ~mediaLog[k][1][2]
    /\ Len(upOut[k]) >= 2
    /\ upOut[k][1] = SessionUpdate
    /\ upOut[k][2].type = "audio"

\* C2: a downstream media event handled while upstream is not open changes
\* nothing but the count of handled events (nothing sent on either socket, no
\* session or registry change), and its payload is never sent later: the audio
\* chunks sent upstream are exactly the payloads handled while upstream was open.
C2_MediaDropped ==
  /\ [][ \A k \in Conns : \A m \in DownMsgs :
           (DownstreamMessage(k, m) /\ m # Garbage /\ m.event = "media"
              /\ vapiWs[k] # "OPEN")
             => UNCHANGED << now, sessions, heap, down, sessionId, session,
                             vapiWs, upOut, downOut, closeRuns >> ]_vars
  /\ [](\A k \in Conns : ChunksOf(upOut[k]) = ForwardedOf(mediaLog[k]))

\* a payload was dropped, upstream opened afterwards, and a different payload
\* was then forwarded
C2_Witness ==
  \E k \in Conns :
    /\ Len(mediaLog[k]) = 2
    /\ ~mediaLog[k][1][2]
    /\ mediaLog[k][2][2]
    /\ mediaLog[k][1][1] # mediaLog[k][2][1]
    /\ ChunksOf(upOut[k]) = <<mediaLog[k][2][1]>>

\* C3 (as claimed): once a session's stream identifier is set, no later event
\* changes it.
C3_StreamSidSetOnce ==
  [][ \A o \in Conns :
        (heap[o] # NoObject /\ heap[o].streamSid # Null)
          => heap'[o].streamSid = heap[o].streamSid ]_vars

\* C4 (as claimed): for every call identifier, the downstream connections that
\* have not closed are bound to at most one session object.
C4_OneLiveSessionPerCall ==
  \A c \in CallIds :
    Cardinality({ session[k] : k \in { j \in Conns : down[j] = "open"
                                                    /\ sessionId[j] = c } }) <= 1

\* C5 (as claimed): the first run of a connection's close listener leaves no
\* registry entry for its session, and a later run on the same connection
\* removes no registry entry and leaves the cleaned transcript as it is.
C5_CloseOnce ==
  [][ \A k \in Conns :
        /\ (closeRuns[k] = 0 /\ closeRuns'[k] = 1)
             => \A c \in CallIds : sessions'[c] # session[k]
        /\ (closeRuns[k] >= 1 /\ closeRuns'[k] = closeRuns[k] + 1)
             => /\ sessions' = sessions
                /\ heap'[session[k]].transcript = heap[session[k]].transcript
    ]_vars

\* C6 (as claimed): once the downstream connection has closed, the upstream
\* connection is not open.
C6_UpstreamTornDown ==
  \A k \in Conns : down[k] = "closed" => vapiWs[k] # "OPEN"

\* C7: an upstream close, an upstream socket error and an upstream `error`
\* message leave the registry, every session's transcript and stream
\* identifier, and every downstream connection as they are.
C7_UpstreamNeverTearsDown ==
  [][ \A k \in Conns :
        (UpstreamClose(k) \/ UpstreamError(k)
           \/ UpstreamMessage(k, [type |-> "error"]))
          => UNCHANGED << sessions, heap, down >> ]_vars

\* upstream has closed while the session, holding transcript lines, is still
\* registered and its downstream connection is open
C7_Witness ==
  \E k \in Conns :
    /\ vapiWs[k] = "CLOSED"
    /\ down[k] = "open"
    /\ sessions[sessionId[k]] = session[k]
    /\ heap[session[k]].transcript # EmptyString

\* frames that do not parse, or that lack the field their kind requires
MalformedUp ==
  { Garbage,
    [type |-> "transcript", text |-> MissingText],
    [type |-> "assistant_response", text |-> MissingText],
    [type |-> "audio", chunk |-> Missing] }

MalformedDown ==
  { Garbage,
    [event |-> "media", media |-> Missing],
    [event |-> "start", start |-> Missing] }

\* C8 (as claimed): a malformed frame on either connection changes no
\* transcript, stream identifier, registry entry or connection state, and
\* causes nothing to be sent on either connection.
C8_MalformedDiscarded ==
  [][ \A k \in Conns :
        ((\E m \in MalformedUp : UpstreamMessage(k, m))
           \/ (\E m \in MalformedDown : DownstreamMessage(k, m)))
          => UNCHANGED << sessions, heap, down, vapiWs, upOut, downOut >> ]_vars

\* C9: accepting a connection for call identifier c registers a new session
\* (empty transcript, no stream identifier) only when the registry has no entry
\* for c; otherwise the registered object is the one the connection is bound
\* to, it stays the entry for c, and no session object changes.  No other
\* entry of the registry changes.
C9_LookupOrCreate ==
  [][ \A k \in Conns : \A h \in Headers \cup {NoHeader} : \A t \in 0 .. MaxClock :
        Connect(k, h, t) =>
          LET c == SessionIdOf(h, t)
          IN /\ \A d \in CallIds \ {c} : sessions'[d] = sessions[d]
             /\ sessions'[c] = session'[k]
             /\ IF sessions[c] # NoSession
                  THEN /\ session'[k] = sessions[c]
                       /\ heap' = heap
                  ELSE /\ session'[k] \notin { session[j] : j \in Accepted }
                       /\ heap'[session'[k]] = NewSession
                       /\ \A o \in Conns \ {session'[k]} : heap'[o] = heap[o]
    ]_vars

\* two connections of one call identifier share the session object whose
\* stream identifier the first one had set before the second arrived
C9_Witness ==
  \E j \in Conns : \E k \in Conns :
    /\ j < k
    /\ down[k] # "none"
    /\ sessionId[j] = sessionId[k]
    /\ session[j] = session[k]
    /\ sessions[sessionId[k]] = session[k]
    /\ heap[session[k]].streamSid # Null

\* an event on connection k: a message, an open, a close or an error
EventOn(k) ==
  \/ UpstreamOpen(k)
  \/ \E m \in UpMsgs : UpstreamMessage(k, m)
  \/ \E m \in DownMsgs : DownstreamMessage(k, m)
  \/ UpstreamClose(k)
  \/ UpstreamError(k)
  \/ DownstreamClose(k)

\* C10: two call identifiers are never registered to the same session object,
\* and an event on a connection of call identifier A changes neither the
\* session object, the registry entry nor the sent frames of a connection of
\* another call identifier B.
C10_SessionsIsolated ==
  /\ [](\A a \in CallIds : \A b \in CallIds \ {a} :
          sessions[a] # NoSession => sessions[a] # sessions[b])
  /\ [][ \A k \in Accepted : \A j \in Accepted :
           (sessionId[j] # sessionId[k] /\ EventOn(k)) =>
             /\ heap'[session[j]] = heap[session[j]]
             /\ sessions'[sessionId[j]] = sessions[sessionId[j]]
             /\ upOut'[j] = upOut[j]
             /\ downOut'[j] = downOut[j] ]_vars

\* call A's connection has closed while call B's session, with its stream
\* identifier set, is still registered and connected
C10_Witness ==
  \E j \in Conns : \E k \in Conns :
    /\ down[k] = "closed"
    /\ down[j] = "open"
    /\ sessionId[j] # sessionId[k]
    /\ sessions[sessionId[j]] = session[j]
    /\ heap[session[j]].streamSid # Null

\* the session object's connections: every handler run bound to object o
BoundTo(o) == { j \in Accepted : session[j] = o }

\* C11 (as claimed): a frame is sent downstream only by the handling of one
\* upstream `audio` event; it is that event's chunk wrapped with the session's
\* stream identifier, and that identifier is one a `start` event supplied,
\* never the unset one.
C11_MediaFromAudio ==
  [][ \A k \in Conns :
        downOut'[k] # downOut[k] =>
          \E m \in UpMsgs :
            /\ m # Garbage
            /\ m.type = "audio"
            /\ UpstreamMessage(k, m)
            /\ downOut'[k] =
                 Append(downOut[k], AudioDelta(heap[session[k]].streamSid, m.chunk))
            /\ heap[session[k]].streamSid \in StreamSids ]_vars

\* C12: cleaning a cleaned transcript gives the cleaned transcript.
C12_CleanIdempotent ==
  cleanPc = "twice" => cleanTwice = cleanOnce

\* both calls have run on a transcript that cleaning changed and that keeps
\* two lines
C12_Witness ==
  /\ cleanPc = "twice"
  /\ cleanOnce # cleanIn
  /\ Len(Split(cleanOnce)) >= 3

AllWhitespace(line) == \A i \in 1 .. Len(line) : line[i] \in Whitespace
HoldsSentinel(line) == Includes(line, Sentinel)
Survives(line) == ~HoldsSentinel(line) /\ ~AllWhitespace(line)

\* the lines of T that neither hold the placeholder nor are empty after trimming
KeptLines(T) == SelectSeq(Split(T), Survives)

\* C13: when T has N lines that neither hold the placeholder nor are empty
\* after trimming, cleanTranscript(T) is those N lines in their order, an empty
\* line between consecutive ones, none before the first or after the last
\* (the empty string when N = 0).
C13_CleanLayout ==
  cleanPc \in {"once", "twice"} =>
    LET kept == KeptLines(cleanIn)
        n == Len(kept)
        out == Split(cleanOnce)
    IN IF n = 0
         THEN cleanOnce = EmptyString
         ELSE /\ Len(out) = 2 * n - 1
              /\ \A i \in 1 .. n : out[2 * i - 1] = kept[i]
              /\ \A i \in 1 .. (n - 1) : out[2 * i] = EmptyString

\* two different lines are kept and a line between them is dropped
C13_Witness ==
  /\ cleanPc = "once"
  /\ Len(KeptLines(cleanIn)) = 2
  /\ KeptLines(cleanIn)[1] # KeptLines(cleanIn)[2]
  /\ Len(Split(cleanIn)) >= 3

\* the lines of a cleaned transcript, without the empty lines that separate them
ContentLines(cleaned) ==
  IF cleaned = EmptyString
    THEN {}
    ELSE { Split(cleaned)[i] : i \in { j \in 1 .. Len(Split(cleaned)) : j % 2 = 1 } }

InputLines(T) == { Split(T)[i] : i \in 1 .. Len(Split(T)) }

\* C14 (as claimed): a line equal to the placeholder and a line empty after
\* trimming are removed, and every other line is in the result verbatim.
C14_RemovesEqualOnly ==
  cleanPc = "once" =>
    \A line \in InputLines(cleanIn) :
      IF line = Sentinel \/ AllWhitespace(line)
        THEN line \notin ContentLines(cleanOnce)
        ELSE line \in ContentLines(cleanOnce)

\* C14 (amended): a line that holds the placeholder, as the whole line or as
\* part of a longer one, and a line empty after trimming are removed; every
\* other line is in the result verbatim, and the result holds no other line.
C14_RemovesHolding ==
  cleanPc = "once" =>
    /\ \A line \in InputLines(cleanIn) :
         IF HoldsSentinel(line) \/ AllWhitespace(line)
           THEN line \notin ContentLines(cleanOnce)
           ELSE line \in ContentLines(cleanOnce)
    /\ ContentLines(cleanOnce) \subseteq InputLines(cleanIn)

\* the transcript holds a line kept and a longer line that holds the placeholder
C14_Witness ==
  /\ cleanPc = "once"
  /\ cleanOnce # EmptyString
  /\ \E line \in InputLines(cleanIn) : HoldsSentinel(line) /\ line # Sentinel

\* C15 (as claimed): a run of the downstream close listener issues one
\* extraction request carrying the session's cleaned transcript.
C15_CloseHandsOver ==
  [][ \A k \in Conns :
        closeRuns'[k] = closeRuns[k] + 1 =>
          requests' =
            processTranscriptAndSend(heap'[session[k]].transcript, sessionId[k])
    ]_vars

\* C16 (as claimed): once the close listener of every connection bound to a
\* session has run, no event changes the session's transcript or stream
\* identifier or sends a frame on either connection.
C16_NothingAfterTerminated ==
  [][ \A k \in Accepted :
        (\A j \in BoundTo(session[k]) : closeRuns[j] >= 1) =>
          /\ heap'[session[k]] = heap[session[k]]
          /\ upOut'[k] = upOut[k]
          /\ downOut'[k] = downOut[k] ]_vars

\* C17: a downstream media event handled while upstream is open sends exactly
\* one audio frame holding its payload, after the frames already sent, and the
\* chunks sent upstream are, in order, the payloads handled while upstream
\* was open.
C17_MediaForwardedInOrder ==
  /\ [][ \A k \in Conns : \A p \in Payloads :
           (vapiWs[k] = "OPEN"
              /\ DownstreamMessage(k, [event |-> "media", media |-> p]))
             => upOut'[k] = Append(upOut[k], AudioMessage(p)) ]_vars
  /\ [](\A k \in Conns : ChunksOf(upOut[k]) = ForwardedOf(mediaLog[k]))

\* two different payloads were forwarded, in the order of their events
C17_Witness ==
  \E k \in Conns :
    /\ ChunksOf(upOut[k]) = <<"abc", "xyz">>
    /\ Len(mediaLog[k]) = 2

\* the lines of a transcript that ends with a line feed (or is empty)
LinesOf(transcript) ==
  IF transcript = EmptyString
    THEN <<>>
    ELSE SubSeq(Split(transcript), 1, Len(Split(transcript)) - 1)

\* no connection bound to session object o has closed
BeforeClose(o) == \A j \in BoundTo(o) : closeRuns[j] = 0

\* a step within the time before close of the session of connection k
StaysBeforeClose(k) ==
  /\ k \in Accepted
  /\ BeforeClose(session[k])
  /\ \A j \in Conns : session'[j] = session[k] => closeRuns'[j] = 0

\* only an upstream transcript or assistant_response event changes a
\* transcript before close
OnlyFragmentsChange ==
  \A k \in Conns :
    (StaysBeforeClose(k)
       /\ heap'[session[k]].transcript # heap[session[k]].transcript)
      => \E j \in BoundTo(session[k]) : \E m \in UpMsgs :
           /\ m # Garbage
           /\ m.type \in {"transcript", "assistant_response"}
           /\ UpstreamMessage(j, m)

\* C18: before close, a transcript event with a text adds exactly
\* one line, the user tag and the trimmed text, after the lines held; an
\* assistant_response event with a text adds exactly one line, the agent tag
\* and the text; nothing else changes the transcript.
C18_OneLinePerFragment ==
  [][ /\ OnlyFragmentsChange
      /\ \A k \in Conns : \A t \in Texts :
           StaysBeforeClose(k) =>
             /\ UpstreamMessage(k, [type |-> "transcript", text |-> t])
                  => LinesOf(heap'[session[k]].transcript) =
                       Append(LinesOf(heap[session[k]].transcript),
                              UserTag \o Trim(t))
             /\ UpstreamMessage(k, [type |-> "assistant_response", text |-> t])
                  => LinesOf(heap'[session[k]].transcript) =
                       Append(LinesOf(heap[session[k]].transcript),
                              AgentTag \o t) ]_vars

StartsWith(line, tag) ==
  Len(line) >= Len(tag) /\ SubSeq(line, 1, Len(tag)) = tag

\* a tagged line whose text is empty, whitespace only, or the placeholder
EmptyOrPlaceholderLine(line) ==
  \E tag \in {UserTag, AgentTag} :
    /\ StartsWith(line, tag)
    /\ LET text == SubSeq(line, Len(tag) + 1, Len(line))
       IN AllWhitespace(text) \/ text = <<"Agent message not found">>

\* C19 (as claimed): the transcript the close listener leaves in the session
\* holds no line whose text is empty, whitespace only, or the placeholder.
C19_NoEmptyOrPlaceholder ==
  [][ \A k \in Conns :
        closeRuns'[k] = closeRuns[k] + 1 =>
          \A line \in InputLines(heap'[session[k]].transcript) :
            ~EmptyOrPlaceholderLine(line) ]_vars

\* the caller address of the call with call identifier c, from its setup
OwnCaller(c) ==
  LET p == CHOOSE q \in WebhookCalls : q.CallSid = c
  IN IF p.From # Missing THEN p.From ELSE Null

WebhookSids == { p.CallSid : p \in WebhookCalls }

\* C20 (as claimed): while a call's connection is open, the caller address
\* read for it, once its own, stays its own.
C20_CallerStable ==
  [][ \A k \in Conns :
        (down[k] = "open" /\ sessionId[k] \in WebhookSids
           /\ CallerRead = OwnCaller(sessionId[k]))
          => CallerRead' = OwnCaller(sessionId[k]) ]_vars
====
